---- MODULE Spec2Model ----
(***************************************************************************)
(* Model of app/components/ai-assistant/db-assistant.tsx: the usage        *)
(* aggregator (UsageStatistics), the conversation list item's rename       *)
(* editor (ConversationListItem), the creation form                        *)
(* (NewConversationDialog), the settings panel (AssistantSettings) and the *)
(* loads and the conversation/message synchronisation of the main          *)
(* component (DbAssistant).                                                *)
(***************************************************************************)
EXTENDS Integers, Sequences, FiniteSets, Bags, TLC

VARIABLES
    \* UsageStatistics
    usageStats,      \* the usageStats prop: a sequence of UsageStat rows
    groupedByDate,   \* the reduce accumulator, buckets in key insertion order
    sortedStats,     \* Object.values(groupedByDate) sorted
    usageView,       \* "unrendered" | "noData" | "stats"
    \* ConversationListItem
    isEditing,       \* useState(false)
    title,           \* useState(conversation.title)
    itemTitle,       \* conversation.title, the prop
    renamed,         \* the argument of the last onRename call, or NoRename
    itemEvent,       \* the UI event handled last
    \* DbAssistant
    mounted,                 \* the mount effect has run
    conversations,           \* useState<Conversation[]>([])
    currentConversation,     \* useState<Conversation | null>(null)
    messages,                \* useState<Message[]>([])
    isLoadingConversations,  \* useState(true)
    isLoadingMessages,       \* useState(false)
    toasts,                  \* the toasts emitted so far, each named by its call site
    net,                     \* the bag of requests in flight
    response,                \* the response delivered last, or NoResponse
    aiModels,                \* models: useState<AiModel[]>([])
    preferences,             \* useState<UserAiPreference | null>(null)
    isLoadingModels,         \* useState(true)
    isLoadingPreferences,    \* useState(true)
    isLoadingUsageStats,     \* useState(false)
    \* NewConversationDialog
    dialogTitle,     \* useState("新对话"), the title input
    modelId,         \* useState<number | undefined>(undefined)
    systemPrompt,    \* useState("")
    isCreating,      \* useState(false)
    open,            \* the open prop
    createCall,      \* the pending onCreateConversation call, or NoCall
    dialogEvent,     \* what handleCreate did last
    \* AssistantSettings
    localPreferences,  \* useState(preferences || {})
    apiKeys,           \* useState({openai: "", anthropic: "", gemini: ""})
    isSaving,          \* useState(false)
    saveCall,          \* the pending onSavePreferences / onSaveApiKey call, or NoCall
    settingsEvent      \* what the save handlers did last

usageVars == <<usageStats, groupedByDate, sortedStats, usageView>>
itemVars == <<isEditing, title, itemTitle, renamed, itemEvent>>
appVars == <<mounted, conversations, currentConversation, messages,
             isLoadingConversations, isLoadingMessages, toasts, net, response>>
appStateVars == <<mounted, conversations, currentConversation, messages,
                  isLoadingConversations, isLoadingMessages, net, response>>
auxVars == <<aiModels, preferences, isLoadingModels, isLoadingPreferences,
             isLoadingUsageStats>>
dialogVars == <<dialogTitle, modelId, systemPrompt, isCreating, open, createCall,
                dialogEvent>>
settingsVars == <<localPreferences, apiKeys, isSaving, saveCall, settingsEvent>>
panelVars == <<auxVars, dialogVars, settingsVars>>
vars == <<usageVars, itemVars, appVars, panelVars>>

----------------------------------------------------------------------------
(* Bounds *)

MaxRows == 3          \* longest usageStats list
MaxTitleLen == 2      \* longest title typed into the rename input
MaxConversations == 2 \* conversation ids are 1..MaxConversations
MaxMessages == 1      \* most messages the backend holds for one conversation
MaxInFlight == 2      \* most requests in flight at once

----------------------------------------------------------------------------
(* UsageStatistics: the usage aggregator *)

\* UsageStat.date: a calendar day, <<year, month, day>> for "yyyy-mm-dd".
Dates == {<<2023, 12, 31>>, <<2024, 2, 29>>, <<2024, 3, 1>>}

\* (provider, model_name) pairs of UsageStat rows.
ModelPairs == {<<"azure-openai", "gpt4">>, <<"azure", "openai-gpt4">>, <<"azure", "gpt4">>}

\* (tokens_used, request_count) of UsageStat rows.
Amounts == {<<1, 1>>, <<5, 2>>}

UsageStat(date, pair, amount) ==
    [date |-> date, tokens_used |-> amount[1], request_count |-> amount[2],
     model_name |-> pair[2], provider |-> pair[1]]

UsageRows == {UsageStat(d, p, a) : d \in Dates, p \in ModelPairs, a \in Amounts}

RECURSIVE SeqsUpTo(_, _)
SeqsUpTo(S, n) ==
    IF n = 0 THEN {<<>>}
    ELSE LET shorter == SeqsUpTo(S, n - 1)
         IN shorter \cup {Append(s, x) : s \in {t \in shorter : Len(t) = n - 1}, x \in S}

\* new Date(date).getTime() for a day string, in days since 1970-01-01
\* (the proleptic Gregorian day count; the code's unit is milliseconds).
getTime(date) ==
    LET y == IF date[2] <= 2 THEN date[1] - 1 ELSE date[1]
        era == y \div 400
        yoe == y - era * 400
        mp == (date[2] + 9) % 12
        doy == (153 * mp + 2) \div 5 + date[3] - 1
        doe == yoe * 365 + yoe \div 4 - yoe \div 100 + doy
    IN era * 146097 + doe - 719468

\* `${stat.provider}-${stat.model_name}`
modelKey(stat) == stat.provider \o "-" \o stat.model_name

\* Index of the first key of keys that equals k, or 0: the property lookup.
RECURSIVE IndexFrom(_, _, _)
IndexFrom(keys, k, i) ==
    IF i > Len(keys) THEN 0
    ELSE IF keys[i] = k THEN i
    ELSE IndexFrom(keys, k, i + 1)

IndexOfKey(keys, k) == IndexFrom(keys, k, 1)

\* AccumulateModel with "=" written for "+=" on the model entry.
AccumulateModel_Overwrite(models, stat) ==
    LET key == modelKey(stat)
        at == IndexOfKey([i \in 1..Len(models) |-> models[i].key], key)
        withEntry == IF at = 0
                     THEN Append(models, [key |-> key, name |-> stat.model_name,
                                          provider |-> stat.provider,
                                          tokens |-> 0, requests |-> 0])
                     ELSE models
        j == IF at = 0 THEN Len(withEntry) ELSE at
    IN [withEntry EXCEPT ![j].tokens = stat.tokens_used,
                         ![j].requests = stat.request_count]

\* The model-level part of the reducer: create the entry if absent, then add.
AccumulateModel(models, stat) ==
    LET key == modelKey(stat)
        at == IndexOfKey([i \in 1..Len(models) |-> models[i].key], key)
        withEntry == IF at = 0
                     THEN Append(models, [key |-> key, name |-> stat.model_name,
                                          provider |-> stat.provider,
                                          tokens |-> 0, requests |-> 0])
                     ELSE models
        j == IF at = 0 THEN Len(withEntry) ELSE at
    IN [withEntry EXCEPT ![j].tokens = @ + stat.tokens_used,
                         ![j].requests = @ + stat.request_count]

\* Accumulate with the date-level totals added in an else branch of the
\* bucket creation, so that the first row of a date is not counted.
Accumulate_SkipFirst(acc, stat) ==
    LET at == IndexOfKey([i \in 1..Len(acc) |-> acc[i].date], stat.date)
        withBucket == IF at = 0
                      THEN Append(acc, [date |-> stat.date, totalTokens |-> 0,
                                        totalRequests |-> 0, models |-> <<>>])
                      ELSE acc
        j == IF at = 0 THEN Len(withBucket) ELSE at
    IN [withBucket EXCEPT ![j].totalTokens = IF at = 0 THEN @ ELSE @ + stat.tokens_used,
                          ![j].totalRequests = IF at = 0 THEN @ ELSE @ + stat.request_count,
                          ![j].models = AccumulateModel(@, stat)]

\* Accumulate with "=" written for "+=" on totalTokens: the last row of a
\* date wins.
Accumulate_Overwrite(acc, stat) ==
    LET at == IndexOfKey([i \in 1..Len(acc) |-> acc[i].date], stat.date)
        withBucket == IF at = 0
                      THEN Append(acc, [date |-> stat.date, totalTokens |-> 0,
                                        totalRequests |-> 0, models |-> <<>>])
                      ELSE acc
        j == IF at = 0 THEN Len(withBucket) ELSE at
    IN [withBucket EXCEPT ![j].totalTokens = stat.tokens_used,
                          ![j].totalRequests = @ + stat.request_count,
                          ![j].models = AccumulateModel(@, stat)]

\* The reducer callback (acc, stat) => acc.
Accumulate(acc, stat) ==
    LET at == IndexOfKey([i \in 1..Len(acc) |-> acc[i].date], stat.date)
        withBucket == IF at = 0
                      THEN Append(acc, [date |-> stat.date, totalTokens |-> 0,
                                        totalRequests |-> 0, models |-> <<>>])
                      ELSE acc
        j == IF at = 0 THEN Len(withBucket) ELSE at
    IN [withBucket EXCEPT ![j].totalTokens = @ + stat.tokens_used,
                          ![j].totalRequests = @ + stat.request_count,
                          ![j].models = AccumulateModel(@, stat)]

\* usageStats.reduce(callback, {})
RECURSIVE Reduce(_, _, _)
Reduce(rows, acc, i) ==
    IF i > Len(rows) THEN acc
    ELSE Reduce(rows, Accumulate(acc, rows[i]), i + 1)

GroupByDate(rows) == Reduce(rows, <<>>, 1)

\* The comparator with a and b exchanged: an ascending sort.
compareStats_Ascending(a, b) == getTime(a.date) - getTime(b.date)

\* The sort comparator (a, b) => new Date(b.date).getTime() - new Date(a.date).getTime()
compareStats(a, b) == getTime(b.date) - getTime(a.date)

\* Array.prototype.sort: a stable sort by the comparator.
RECURSIVE InsertSorted(_, _)
InsertSorted(sorted, x) ==
    IF sorted = <<>> THEN <<x>>
    ELSE IF compareStats(sorted[Len(sorted)], x) <= 0 THEN Append(sorted, x)
    ELSE Append(InsertSorted(SubSeq(sorted, 1, Len(sorted) - 1), x), sorted[Len(sorted)])

RECURSIVE SortFrom(_, _, _)
SortFrom(items, sorted, i) ==
    IF i > Len(items) THEN sorted
    ELSE SortFrom(items, InsertSorted(sorted, items[i]), i + 1)

SortStats(items) == SortFrom(items, <<>>, 1)

\* The test written as length <= 1.
IsEmptyResult_AtMostOne(stats) == Len(stats) <= 1

\* sortedStats.length === 0
IsEmptyResult(stats) == Len(stats) = 0

UsageInit ==
    /\ usageStats \in SeqsUpTo(UsageRows, MaxRows)
    /\ groupedByDate = <<>>
    /\ sortedStats = <<>>
    /\ usageView = "unrendered"

\* One render of UsageStatistics with the current usageStats prop.
UsageStatisticsRender ==
    /\ usageView = "unrendered"
    /\ groupedByDate' = GroupByDate(usageStats)
    /\ sortedStats' = SortStats(groupedByDate')
    /\ usageView' = IF IsEmptyResult(sortedStats') THEN "noData" ELSE "stats"
    /\ UNCHANGED usageStats
    /\ UNCHANGED <<itemVars, appVars, panelVars>>

----------------------------------------------------------------------------
(* ConversationListItem: the inline rename editor *)

\* A title is a sequence of characters.
TitleChars == {" ", "a"}

Titles == SeqsUpTo(TitleChars, MaxTitleLen)

NoRename == <<"none">>

IsWhitespace(c) == c = " "

\* String.prototype.trim: drop leading and trailing whitespace.
RECURSIVE trimStart(_)
trimStart(s) ==
    IF s = <<>> THEN s
    ELSE IF IsWhitespace(Head(s)) THEN trimStart(Tail(s))
    ELSE s

RECURSIVE trimEnd(_)
trimEnd(s) ==
    IF s = <<>> THEN s
    ELSE IF IsWhitespace(s[Len(s)]) THEN trimEnd(SubSeq(s, 1, Len(s) - 1))
    ELSE s

trim(s) == trimEnd(trimStart(s))

\* The condition written as if (title): only "" is rejected.
RenameAccepted_NoTrim(t) == t # <<>>

\* The condition of handleRename: title.trim() is truthy, i.e. not "".
RenameAccepted(t) == trim(t) # <<>>

ItemInit ==
    /\ isEditing = FALSE
    /\ itemTitle \in Titles
    /\ title = itemTitle
    /\ renamed = NoRename
    /\ itemEvent = "none"

\* The onRename prop, (newTitle) => void: the parent renames the conversation,
\* and the item is rendered again with the renamed conversation.
onRename(newTitle) ==
    /\ renamed' = newTitle
    /\ itemTitle' = newTitle

handleRename ==
    IF RenameAccepted(title)
    THEN /\ onRename(title)
         /\ isEditing' = FALSE
         /\ UNCHANGED title
    ELSE UNCHANGED <<isEditing, title, itemTitle, renamed>>

\* The rename button, rendered while not editing: setIsEditing(true).
StartEditing ==
    /\ ~isEditing
    /\ isEditing' = TRUE
    /\ itemEvent' = "edit"
    /\ UNCHANGED <<title, itemTitle, renamed>>
    /\ UNCHANGED <<usageVars, appVars, panelVars>>

\* onChange of the input, rendered while editing: setTitle(e.target.value).
setTitle(v) ==
    /\ isEditing
    /\ title' = v
    /\ itemEvent' = "change"
    /\ UNCHANGED <<isEditing, itemTitle, renamed>>
    /\ UNCHANGED <<usageVars, appVars, panelVars>>

\* onBlur of the input.
Blur ==
    /\ isEditing
    /\ itemEvent' = "blur"
    /\ handleRename
    /\ UNCHANGED <<usageVars, appVars, panelVars>>

\* onKeyDown of the input.
handleKeyDown(key) ==
    /\ isEditing
    /\ itemEvent' = key
    /\ IF key = "Enter" THEN handleRename
       ELSE IF key = "Escape"
       THEN /\ title' = itemTitle
            /\ isEditing' = FALSE
            /\ UNCHANGED <<itemTitle, renamed>>
       ELSE UNCHANGED <<isEditing, title, itemTitle, renamed>>
    /\ UNCHANGED <<usageVars, appVars, panelVars>>

Keys == {"Enter", "Escape", "Tab"}

ChangeTitle == \E v \in Titles : setTitle(v)

KeyDown == \E key \in Keys : handleKeyDown(key)

NextItem ==
    \/ StartEditing
    \/ ChangeTitle
    \/ Blur
    \/ KeyDown

----------------------------------------------------------------------------
(* DbAssistant: conversation and message synchronisation *)

Null == [id |-> 0]

Conversation == [id : 1..MaxConversations]

Message(c, k) == [id |-> (c - 1) * (MaxMessages + 1) + k, conversation_id |-> c]

RECURSIVE HasDuplicate(_)
HasDuplicate(s) ==
    IF Len(s) < 2 THEN FALSE
    ELSE (\E i \in 2..Len(s) : s[i] = s[1]) \/ HasDuplicate(Tail(s))

\* The lists GET /api/ai-assistant/conversations can answer with.
ConversationLists == {l \in SeqsUpTo(Conversation, MaxConversations) : ~HasDuplicate(l)}

\* The lists GET /api/ai-assistant/conversations/{id} can answer with: the
\* messages of that conversation so far (messages are append-only).
MessageLists(c) == {[k \in 1..n |-> Message(c, k)] : n \in 0..MaxMessages}

\* How a request ends: fetch rejects, response.ok is false, response.json()
\* rejects, the body is delivered, or a body is delivered that lacks the
\* field the handler reads (data.conversations, data.messages, ...).
Outcomes == {"rejected", "notOk", "badJson", "ok", "noField"}

\* The value undefined, where a list is expected.
Undefined == <<[undefined |-> TRUE]>>

\* What the handler makes of an outcome: the try body completes or the catch
\* runs.  Only loadConversations reads a property of the missing field
\* (data.conversations.length), which throws.
Kind(op, outcome) ==
    IF outcome = "ok" \/ (outcome = "noField" /\ op # "conversations")
    THEN "ok" ELSE "failed"

NoResponse == [op |-> "none", kind |-> "none", data |-> <<>>]

\* A request in flight.  closure is the currentConversation its caller closed over.
Request(op, arg, closure) == [op |-> op, arg |-> arg, closure |-> closure]

Requests(n, op) == {r \in BagToSet(n) : r.op = op}

Issue(n, req) == n (+) SetToBag({req})

Settle(n, req) == n (-) SetToBag({req})

\* How many fetches of each conversation's messages are in flight.
MessageFetches(n) ==
    [c \in 1..MaxConversations |-> CopiesIn(Request("messages", c, Null), n)]

Delivered(req, outcome, data) ==
    [op |-> req.op, kind |-> Kind(req.op, outcome), data |-> data]

\* The component renders: a list state that is undefined throws in render
\* and the component is gone.
Alive ==
    /\ conversations # Undefined
    /\ messages # Undefined
    /\ aiModels # Undefined
    /\ usageStats # Undefined

AppInit ==
    /\ mounted = FALSE
    /\ conversations = <<>>
    /\ currentConversation = Null
    /\ messages = <<>>
    /\ isLoadingConversations = TRUE
    /\ isLoadingMessages = FALSE
    /\ toasts = {}
    /\ net = EmptyBag
    /\ response = NoResponse

\* The last conversation of the list taken for the first.
LastConversation(list) == list[Len(list)]

\* data.conversations[0]
FirstConversation(list) == list[1]

\* The fetched messages appended to the displayed ones.
SetMessages_Append(prev, data) == prev \o data

\* setMessages(data.messages)
SetMessages(prev, data) == data

\* loadConversations() up to its first await.  The call closes over the
\* currentConversation of the render it is made from.
loadConversations(n) ==
    /\ isLoadingConversations' = TRUE
    /\ net' = Issue(n, Request("conversations", 0, currentConversation))

\* The mount effect: fetch the conversation list.
Mount ==
    /\ ~mounted
    /\ BagCardinality(net) < MaxInFlight
    /\ mounted' = TRUE
    /\ loadConversations(net)
    /\ UNCHANGED <<conversations, currentConversation, messages,
                   isLoadingMessages, toasts, response>>
    /\ UNCHANGED <<usageVars, itemVars, panelVars>>

\* loadMessages(conversationId) up to its first await.
loadMessages(conversationId, n) ==
    /\ isLoadingMessages' = TRUE
    /\ net' = Issue(n, Request("messages", conversationId, Null))

\* loadConversations() after its awaits: the try body, catch and finally.
loadConversationsThen(req, outcome, data) ==
    /\ Alive
    /\ response' = Delivered(req, outcome, data)
    /\ IF outcome = "ok"
       THEN /\ conversations' = data
            /\ IF Len(data) > 0 /\ req.closure = Null
               THEN /\ currentConversation' = FirstConversation(data)
                    /\ loadMessages(FirstConversation(data).id, Settle(net, req))
               ELSE /\ net' = Settle(net, req)
                    /\ UNCHANGED <<currentConversation, isLoadingMessages>>
            /\ UNCHANGED toasts
       ELSE /\ data = <<>>
            \* setConversations(data.conversations) has run when .length throws
            /\ conversations' = IF outcome = "noField" THEN Undefined ELSE conversations
            /\ toasts' = toasts \cup {"loadConversationsFailed"}
            /\ net' = Settle(net, req)
            /\ UNCHANGED <<currentConversation, isLoadingMessages>>
    /\ isLoadingConversations' = FALSE
    /\ UNCHANGED <<mounted, messages>>
    /\ UNCHANGED <<usageVars, itemVars, panelVars>>

\* A handler that drops the response of a conversation that is no longer
\* the selected one.
loadMessagesThen_IgnoreStale(req, outcome, data) ==
    /\ Alive
    /\ response' = Delivered(req, outcome, data)
    /\ net' = Settle(net, req)
    /\ IF Kind(req.op, outcome) = "ok"
       THEN /\ data \in MessageLists(req.arg) <=> outcome = "ok"
            /\ messages' = IF req.arg = currentConversation.id
                           THEN SetMessages(messages, data) ELSE messages
            /\ UNCHANGED toasts
       ELSE /\ data = <<>>
            /\ toasts' = toasts \cup {"loadMessagesFailed"}
            /\ UNCHANGED messages
    /\ isLoadingMessages' = FALSE
    /\ UNCHANGED <<mounted, conversations, currentConversation, isLoadingConversations>>
    /\ UNCHANGED <<usageVars, itemVars, panelVars>>

\* loadMessages(conversationId) after its awaits.
loadMessagesThen(req, outcome, data) ==
    /\ Alive
    /\ response' = Delivered(req, outcome, data)
    /\ net' = Settle(net, req)
    /\ IF Kind(req.op, outcome) = "ok"
       THEN /\ data \in MessageLists(req.arg) <=> outcome = "ok"
            /\ messages' = SetMessages(messages, data)
            /\ UNCHANGED toasts
       ELSE /\ data = <<>>
            /\ toasts' = toasts \cup {"loadMessagesFailed"}
            /\ UNCHANGED messages
    /\ isLoadingMessages' = FALSE
    /\ UNCHANGED <<mounted, conversations, currentConversation, isLoadingConversations>>
    /\ UNCHANGED <<usageVars, itemVars, panelVars>>

\* A click on a conversation of the list: switch to it and fetch its messages.
selectConversation(c) ==
    /\ mounted
    /\ Alive
    /\ \E i \in 1..Len(conversations) : conversations[i] = c
    /\ BagCardinality(net) < MaxInFlight
    /\ currentConversation' = c
    /\ loadMessages(c.id, net)
    /\ UNCHANGED <<mounted, conversations, messages, isLoadingConversations,
                   toasts, response>>
    /\ UNCHANGED <<usageVars, itemVars, panelVars>>

\* createConversation(title, modelId, systemPrompt) up to its first await.
CreateConversation ==
    /\ mounted
    /\ Alive
    /\ BagCardinality(net) < MaxInFlight
    /\ net' = Issue(net, Request("create", 0, Null))
    /\ UNCHANGED <<mounted, conversations, currentConversation, messages,
                   isLoadingConversations, isLoadingMessages, toasts, response>>
    /\ UNCHANGED <<usageVars, itemVars, panelVars>>

\* createConversation after its awaits: the created conversation is added to
\* the list; a failure reaches the dialog's catch, which shows a toast.
createConversationThen(req, outcome, created) ==
    /\ Alive
    /\ net' = Settle(net, req)
    /\ IF outcome = "ok"
       THEN /\ \A j \in 1..Len(conversations) : conversations[j] # created
            /\ response' = Delivered(req, outcome, <<created>>)
            /\ conversations' = <<created>> \o conversations
            /\ UNCHANGED toasts
       ELSE /\ response' = [op |-> req.op, kind |-> "failed", data |-> <<>>]
            /\ toasts' = toasts \cup {"createConversationFailed"}
            /\ UNCHANGED conversations
    /\ UNCHANGED <<mounted, currentConversation, messages,
                   isLoadingConversations, isLoadingMessages>>
    /\ UNCHANGED <<usageVars, itemVars, panelVars>>

\* The list response arrives, in any of its outcomes.
LoadConversationsSettle ==
    \E req \in Requests(net, "conversations"), outcome \in Outcomes,
       data \in ConversationLists :
        loadConversationsThen(req, outcome, data)

\* A message response arrives, in any of its outcomes.
LoadMessagesSettle ==
    \E req \in Requests(net, "messages"), outcome \in Outcomes :
        \E data \in MessageLists(req.arg) \cup {Undefined} :
            loadMessagesThen(req, outcome, data)

SelectConversation == \E c \in Conversation : selectConversation(c)

CreateConversationSettle ==
    \E req \in Requests(net, "create"), outcome \in Outcomes, created \in Conversation :
        createConversationThen(req, outcome, created)

Next ==
    \/ Mount
    \/ LoadConversationsSettle
    \/ LoadMessagesSettle
    \/ SelectConversation
    \/ CreateConversation
    \/ CreateConversationSettle

----------------------------------------------------------------------------
(* DbAssistant: deleting and pinning conversations *)

\* A conversation as the list shows it: its id and its pinned flag.
ListedConversation == [id : 1..MaxConversations, is_pinned : BOOLEAN]

ListedLists ==
    {s \in UNION {[1..n -> ListedConversation] : n \in 0..MaxConversations} :
        \A i, j \in 1..Len(s) : i # j => s[i].id # s[j].id}

ListedIds(list) == {list[i].id : i \in 1..Len(list)}

\* The list without its first conversation, whichever was asked for.
RemoveConversation_First(list, id) == Tail(list)

\* The list without the conversation of that id.
RemoveConversation(list, id) ==
    LET Keep(c) == c.id # id IN SelectSeq(list, Keep)

\* Every conversation's flag inverted.
TogglePinned_All(list, id) ==
    [i \in 1..Len(list) |-> [list[i] EXCEPT !.is_pinned = ~list[i].is_pinned]]

\* The list with the flag of that conversation inverted.
TogglePinned(list, id) ==
    [i \in 1..Len(list) |->
        IF list[i].id = id
        THEN [list[i] EXCEPT !.is_pinned = ~list[i].is_pinned]
        ELSE list[i]]

\* Pinned conversations first, each group in the order it had.
PinnedFirst(list) ==
    LET IsPinned(c) == c.is_pinned
        NotPinned(c) == ~c.is_pinned
    IN  SelectSeq(list, IsPinned) \o SelectSeq(list, NotPinned)

\* The component showing a list, with or without a selection and its messages.
ListInit ==
    /\ mounted = TRUE
    /\ conversations \in ListedLists
    /\ currentConversation \in {Null} \cup {conversations[i] : i \in 1..Len(conversations)}
    /\ messages \in (IF currentConversation = Null THEN {<<>>}
                     ELSE MessageLists(currentConversation.id))
    /\ isLoadingConversations = FALSE
    /\ isLoadingMessages = FALSE
    /\ toasts = {}
    /\ net = EmptyBag
    /\ response = NoResponse

\* onDelete of a listed conversation and the backend's answer to it.
deleteConversation(id, outcome) ==
    /\ id \in ListedIds(conversations)
    /\ response' = [op |-> "delete", kind |-> Kind("delete", outcome), data |-> <<[id |-> id]>>]
    /\ IF Kind("delete", outcome) = "ok"
       THEN /\ conversations' = RemoveConversation(conversations, id)
            /\ IF currentConversation.id = id
               THEN currentConversation' = Null /\ messages' = <<>>
               ELSE UNCHANGED <<currentConversation, messages>>
            /\ UNCHANGED toasts
       ELSE /\ toasts' = toasts \cup {"deleteConversationFailed"}
            /\ UNCHANGED <<conversations, currentConversation, messages>>
    /\ UNCHANGED <<mounted, isLoadingConversations, isLoadingMessages, net>>
    /\ UNCHANGED <<usageVars, itemVars, panelVars>>

\* onTogglePin of a listed conversation and the backend's answer to it.
togglePin(id, outcome) ==
    /\ id \in ListedIds(conversations)
    /\ response' = [op |-> "pin", kind |-> Kind("pin", outcome), data |-> <<[id |-> id]>>]
    /\ IF Kind("pin", outcome) = "ok"
       THEN /\ conversations' = PinnedFirst(TogglePinned(conversations, id))
            /\ UNCHANGED toasts
       ELSE /\ toasts' = toasts \cup {"togglePinFailed"}
            /\ UNCHANGED conversations
    /\ UNCHANGED <<mounted, currentConversation, messages,
                   isLoadingConversations, isLoadingMessages, net>>
    /\ UNCHANGED <<usageVars, itemVars, panelVars>>

DeleteConversation ==
    \E id \in 1..MaxConversations, outcome \in Outcomes : deleteConversation(id, outcome)

TogglePin ==
    \E id \in 1..MaxConversations, outcome \in Outcomes : togglePin(id, outcome)

NextList ==
    \/ DeleteConversation
    \/ TogglePin

----------------------------------------------------------------------------
(* DbAssistant: models, preferences and usage statistics *)

\* preferences null
NoPreferences == [id |-> 0]

\* preferences undefined
UndefinedPreferences == [undefined |-> TRUE]

\* What the backend can hold of each.
ModelLists == {<<>>, <<[id |-> 1]>>}
PreferenceValues == {NoPreferences, [temperature |-> 7]}
UsageLists == {<<>>, <<UsageStat(<<2024, 1, 1>>, <<"azure", "gpt4">>, <<1, 1>>)>>}

AuxFrame ==
    /\ UNCHANGED <<mounted, conversations, currentConversation, messages,
                   isLoadingConversations, isLoadingMessages>>
    /\ UNCHANGED <<groupedByDate, sortedStats, usageView>>
    /\ UNCHANGED <<itemVars, dialogVars, settingsVars>>

\* loadModels() up to its first await.
loadModels ==
    /\ mounted /\ Alive
    /\ BagCardinality(net) < MaxInFlight
    /\ isLoadingModels' = TRUE
    /\ net' = Issue(net, Request("models", 0, Null))
    /\ UNCHANGED <<aiModels, preferences, usageStats, isLoadingPreferences,
                   isLoadingUsageStats, toasts, response>>
    /\ AuxFrame

\* loadModels() with a catch that only logs.
loadModelsThen_Silent(req, outcome, data) ==
    /\ Alive
    /\ response' = Delivered(req, outcome, data)
    /\ net' = Settle(net, req)
    /\ IF Kind(req.op, outcome) = "ok"
       THEN /\ data \in ModelLists <=> outcome = "ok"
            /\ aiModels' = data
       ELSE /\ data = <<>>
            /\ UNCHANGED aiModels
    /\ isLoadingModels' = FALSE
    /\ UNCHANGED <<preferences, usageStats, isLoadingPreferences, isLoadingUsageStats, toasts>>
    /\ AuxFrame

\* loadModels() after its awaits.
loadModelsThen(req, outcome, data) ==
    /\ Alive
    /\ response' = Delivered(req, outcome, data)
    /\ net' = Settle(net, req)
    /\ IF Kind(req.op, outcome) = "ok"
       THEN /\ data \in ModelLists <=> outcome = "ok"
            /\ aiModels' = data
            /\ UNCHANGED toasts
       ELSE /\ data = <<>>
            /\ toasts' = toasts \cup {"loadModelsFailed"}
            /\ UNCHANGED aiModels
    /\ isLoadingModels' = FALSE
    /\ UNCHANGED <<preferences, usageStats, isLoadingPreferences, isLoadingUsageStats>>
    /\ AuxFrame

\* loadPreferences() up to its first await.
loadPreferences ==
    /\ mounted /\ Alive
    /\ BagCardinality(net) < MaxInFlight
    /\ isLoadingPreferences' = TRUE
    /\ net' = Issue(net, Request("preferences", 0, Null))
    /\ UNCHANGED <<aiModels, preferences, usageStats, isLoadingModels,
                   isLoadingUsageStats, toasts, response>>
    /\ AuxFrame

\* loadPreferences() without its finally: the flag is reset by the try body.
loadPreferencesThen_NoFinally(req, outcome, data) ==
    /\ Alive
    /\ response' = Delivered(req, outcome, IF Kind(req.op, outcome) = "ok"
                                            THEN <<data>> ELSE <<>>)
    /\ net' = Settle(net, req)
    /\ IF Kind(req.op, outcome) = "ok"
       THEN /\ data \in PreferenceValues <=> outcome = "ok"
            /\ preferences' = data
            /\ isLoadingPreferences' = FALSE
       ELSE /\ data = NoPreferences
            /\ UNCHANGED <<preferences, isLoadingPreferences>>
    /\ UNCHANGED <<aiModels, usageStats, isLoadingModels, isLoadingUsageStats, toasts>>
    /\ AuxFrame

\* loadPreferences() after its awaits; its catch logs and shows nothing.
loadPreferencesThen(req, outcome, data) ==
    /\ Alive
    /\ response' = Delivered(req, outcome, IF Kind(req.op, outcome) = "ok"
                                            THEN <<data>> ELSE <<>>)
    /\ net' = Settle(net, req)
    /\ IF Kind(req.op, outcome) = "ok"
       THEN /\ data \in PreferenceValues <=> outcome = "ok"
            /\ preferences' = data
       ELSE /\ data = NoPreferences
            /\ UNCHANGED preferences
    /\ isLoadingPreferences' = FALSE
    /\ UNCHANGED <<aiModels, usageStats, isLoadingModels, isLoadingUsageStats, toasts>>
    /\ AuxFrame

\* loadUsageStats() up to its first await.
loadUsageStats ==
    /\ mounted /\ Alive
    /\ BagCardinality(net) < MaxInFlight
    /\ isLoadingUsageStats' = TRUE
    /\ net' = Issue(net, Request("usage", 0, Null))
    /\ UNCHANGED <<aiModels, preferences, usageStats, isLoadingModels,
                   isLoadingPreferences, toasts, response>>
    /\ AuxFrame

\* loadUsageStats() after its awaits.
loadUsageStatsThen(req, outcome, data) ==
    /\ Alive
    /\ response' = Delivered(req, outcome, data)
    /\ net' = Settle(net, req)
    /\ IF Kind(req.op, outcome) = "ok"
       THEN /\ data \in UsageLists <=> outcome = "ok"
            /\ usageStats' = data
            /\ UNCHANGED toasts
       ELSE /\ data = <<>>
            /\ toasts' = toasts \cup {"loadUsageStatsFailed"}
            /\ UNCHANGED usageStats
    /\ isLoadingUsageStats' = FALSE
    /\ UNCHANGED <<aiModels, preferences, isLoadingModels, isLoadingPreferences>>
    /\ AuxFrame

LoadModelsSettle ==
    \E req \in Requests(net, "models"), outcome \in Outcomes :
        \E data \in ModelLists \cup {Undefined} : loadModelsThen(req, outcome, data)

LoadPreferencesSettle ==
    \E req \in Requests(net, "preferences"), outcome \in Outcomes :
        \E data \in PreferenceValues \cup {UndefinedPreferences} :
            loadPreferencesThen(req, outcome, data)

LoadUsageStatsSettle ==
    \E req \in Requests(net, "usage"), outcome \in Outcomes :
        \E data \in UsageLists \cup {Undefined} : loadUsageStatsThen(req, outcome, data)

----------------------------------------------------------------------------
(* NewConversationDialog: the creation form *)

\* The title the form starts with and is reset to ("新对话").
DefaultTitle == <<"n", "e", "w">>

\* modelId undefined; model ids are positive.
NoModelId == 0

\* Number.parseInt("default"), the value of the item offering the default model.
NotANumber == -1

ModelIds == {NoModelId, NotANumber, 1}

Prompts == {"", "p"}

NoCall == [pending |-> FALSE]

\* systemPrompt || undefined
OrUndefined(prompt) == IF prompt = "" THEN "undefined" ELSE prompt

\* handleCreate goes on unless the title trims to empty.
CreateAccepted(t) == trim(t) # <<>>

\* What the catch block leaves of the form: nothing.
AfterFailure_Reset(t, m, p) == <<DefaultTitle, NoModelId, "">>

\* What the catch block leaves of the form: what it holds.
AfterFailure(t, m, p) == <<t, m, p>>

DialogInit ==
    /\ dialogTitle = DefaultTitle
    /\ modelId = NoModelId
    /\ systemPrompt = ""
    /\ isCreating = FALSE
    /\ open = FALSE
    /\ createCall = NoCall
    /\ dialogEvent = "none"

DialogFrame == UNCHANGED <<usageVars, itemVars, appStateVars, auxVars, settingsVars>>

\* The parent's onOpenChange: the trigger opens the dialog, Escape or a click
\* outside closes it.
onOpenChange(v) ==
    /\ open' = v

OpenChange ==
    \E v \in BOOLEAN :
        /\ v # open
        /\ onOpenChange(v)
        /\ dialogEvent' = "openChange"
        /\ UNCHANGED <<dialogTitle, modelId, systemPrompt, isCreating, createCall, toasts>>
        /\ DialogFrame

\* The inputs, shown while the dialog is open; none is disabled by isCreating.
setDialogTitle ==
    \E v \in Titles :
        /\ open
        /\ dialogTitle' = v
        /\ dialogEvent' = "input"
        /\ UNCHANGED <<modelId, systemPrompt, isCreating, open, createCall, toasts>>
        /\ DialogFrame

setModelId ==
    \E v \in ModelIds \ {NoModelId} :
        /\ open
        /\ modelId' = v
        /\ dialogEvent' = "input"
        /\ UNCHANGED <<dialogTitle, systemPrompt, isCreating, open, createCall, toasts>>
        /\ DialogFrame

setSystemPrompt ==
    \E v \in Prompts :
        /\ open
        /\ systemPrompt' = v
        /\ dialogEvent' = "input"
        /\ UNCHANGED <<dialogTitle, modelId, isCreating, open, createCall, toasts>>
        /\ DialogFrame

\* handleCreate up to its await.  The button is disabled while isCreating; its
\* other condition, a title that trims to empty, is the one handleCreate tests.
handleCreate ==
    /\ open
    /\ ~isCreating
    /\ IF CreateAccepted(dialogTitle)
       THEN /\ isCreating' = TRUE
            /\ createCall' = [pending |-> TRUE, title |-> dialogTitle, modelId |-> modelId,
                              systemPrompt |-> OrUndefined(systemPrompt)]
            /\ dialogEvent' = "called"
       ELSE /\ dialogEvent' = "ignored"
            /\ UNCHANGED <<isCreating, createCall>>
    /\ UNCHANGED <<dialogTitle, modelId, systemPrompt, open, toasts>>
    /\ DialogFrame

\* handleCreate after its await: onCreateConversation resolved or rejected.
handleCreateThen(resolved) ==
    /\ createCall # NoCall
    /\ createCall' = NoCall
    /\ IF resolved
       THEN /\ dialogTitle' = DefaultTitle
            /\ modelId' = NoModelId
            /\ systemPrompt' = ""
            /\ onOpenChange(FALSE)
            /\ dialogEvent' = "created"
            /\ UNCHANGED toasts
       ELSE /\ LET form == AfterFailure(dialogTitle, modelId, systemPrompt)
               IN  /\ dialogTitle' = form[1]
                   /\ modelId' = form[2]
                   /\ systemPrompt' = form[3]
            /\ toasts' = toasts \cup {"createFailed"}
            /\ dialogEvent' = "failed"
            /\ UNCHANGED open
    /\ isCreating' = FALSE
    /\ DialogFrame

HandleCreateSettle == \E resolved \in BOOLEAN : handleCreateThen(resolved)

NextDialog ==
    \/ OpenChange
    \/ setDialogTitle
    \/ setModelId
    \/ setSystemPrompt
    \/ handleCreate
    \/ HandleCreateSettle

----------------------------------------------------------------------------
(* AssistantSettings: API keys, preferences and the temperature slider *)

Providers == {"openai", "anthropic", "gemini"}

\* What a key input can hold: nothing, or one of two keys.
ApiKeyValues == {"", "sk-1", "sk-2"}

\* The slider's values, in tenths: min 0, max 1, step 0.1.
MinTemperature == 0
MaxTemperature == 10
Temperatures == MinTemperature..MaxTemperature

\* The temperature shown when none is held: 0.7.
DefaultTemperature == 7

\* Preferences without a temperature: {}.
EmptyPreferences == [key \in {} |-> 0]

HasTemperature(p) == "temperature" \in DOMAIN p

\* value || fallback, on an optional number: undefined and 0 are falsy.
OrElse(p, fallback) ==
    IF HasTemperature(p) /\ p.temperature # 0 THEN p.temperature ELSE fallback

\* localPreferences.temperature || 0.7, the label's and the slider's value.
ShownTemperature(p) == OrElse(p, DefaultTemperature)

\* Every key input emptied.
ClearKey_All(keys, provider) == [q \in Providers |-> ""]

\* {...prev, [provider]: ""}
ClearKey(keys, provider) == [keys EXCEPT ![provider] = ""]

SettingsInit ==
    /\ localPreferences \in {EmptyPreferences, [temperature |-> DefaultTemperature]}
    /\ apiKeys = [q \in Providers |-> ""]
    /\ isSaving = FALSE
    /\ saveCall = NoCall
    /\ settingsEvent = "none"

SettingsIdle ==
    /\ localPreferences = EmptyPreferences
    /\ apiKeys = [q \in Providers |-> ""]
    /\ isSaving = FALSE
    /\ saveCall = NoCall
    /\ settingsEvent = "none"

SettingsFrame == UNCHANGED <<usageVars, itemVars, appStateVars, auxVars, dialogVars>>

\* The slider's onChange: handlePreferenceChange("temperature", parseFloat(value)).
handlePreferenceChange ==
    \E value \in Temperatures :
        /\ localPreferences' = [temperature |-> value]
        /\ settingsEvent' = "input"
        /\ UNCHANGED <<apiKeys, isSaving, saveCall, toasts>>
        /\ SettingsFrame

\* A key input's onChange.
handleApiKeyChange ==
    \E provider \in Providers, value \in ApiKeyValues :
        /\ apiKeys' = [apiKeys EXCEPT ![provider] = value]
        /\ settingsEvent' = "input"
        /\ UNCHANGED <<localPreferences, isSaving, saveCall, toasts>>
        /\ SettingsFrame

\* handleSavePreferences up to its await; its buttons are disabled while isSaving.
handleSavePreferences ==
    /\ ~isSaving
    /\ isSaving' = TRUE
    /\ saveCall' = [pending |-> TRUE, call |-> "preferences", value |-> localPreferences]
    /\ settingsEvent' = "called"
    /\ UNCHANGED <<localPreferences, apiKeys, toasts>>
    /\ SettingsFrame

\* handleSaveApiKey up to its await.  A provider's button is disabled while
\* isSaving; its other condition, an empty key, is the one the handler tests.
handleSaveApiKey(provider) ==
    /\ ~isSaving
    /\ IF apiKeys[provider] = ""
       THEN /\ settingsEvent' = "ignored"
            /\ UNCHANGED <<isSaving, saveCall>>
       ELSE /\ isSaving' = TRUE
            /\ saveCall' = [pending |-> TRUE, call |-> provider, value |-> apiKeys[provider]]
            /\ settingsEvent' = "called"
    /\ UNCHANGED <<localPreferences, apiKeys, toasts>>
    /\ SettingsFrame

HandleSaveApiKey == \E provider \in Providers : handleSaveApiKey(provider)

\* Either handler after its await: the call resolved or rejected.
handleSaveThen(resolved) ==
    /\ saveCall # NoCall
    /\ saveCall' = NoCall
    /\ IF saveCall.call = "preferences"
       THEN /\ toasts' = toasts \cup {IF resolved THEN "preferencesSaved"
                                      ELSE "savePreferencesFailed"}
            /\ settingsEvent' = IF resolved THEN "preferencesSaved" ELSE "preferencesFailed"
            /\ UNCHANGED apiKeys
       ELSE /\ toasts' = toasts \cup {IF resolved THEN "apiKeySaved" ELSE "saveApiKeyFailed"}
            /\ settingsEvent' = IF resolved THEN "apiKeySaved" ELSE "apiKeyFailed"
            /\ apiKeys' = IF resolved THEN ClearKey(apiKeys, saveCall.call) ELSE apiKeys
    /\ isSaving' = FALSE
    /\ UNCHANGED localPreferences
    /\ SettingsFrame

HandleSaveSettle == \E resolved \in BOOLEAN : handleSaveThen(resolved)

NextSettings ==
    \/ handlePreferenceChange
    \/ handleApiKeyChange
    \/ handleSavePreferences
    \/ HandleSaveApiKey
    \/ HandleSaveSettle

----------------------------------------------------------------------------
(* Specifications *)

UsageIdle ==
    /\ usageStats = <<>>
    /\ groupedByDate = <<>>
    /\ sortedStats = <<>>
    /\ usageView = "unrendered"

ItemIdle ==
    /\ isEditing = FALSE
    /\ title = <<>>
    /\ itemTitle = <<>>
    /\ renamed = NoRename
    /\ itemEvent = "none"

\* DbAssistant's other state, as constructed
AuxInit ==
    /\ aiModels = <<>>
    /\ preferences = NoPreferences
    /\ isLoadingModels = TRUE
    /\ isLoadingPreferences = TRUE
    /\ isLoadingUsageStats = FALSE

PanelIdle == AuxInit /\ DialogInit /\ SettingsIdle

\* DbAssistant
Init == UsageIdle /\ ItemIdle /\ AppInit /\ PanelIdle

Spec == Init /\ [][Next]_vars

\* UsageStatistics on its own, for every usageStats prop within the bounds
InitUsage == UsageInit /\ ItemIdle /\ AppInit /\ PanelIdle

NextUsage == UsageStatisticsRender

SpecUsage == InitUsage /\ [][NextUsage]_vars

\* ConversationListItem on its own, for every conversation title within the bounds
InitItem == UsageIdle /\ ItemInit /\ AppInit /\ PanelIdle

SpecItem == InitItem /\ [][NextItem]_vars

\* The conversation list on its own, for every list within the bounds
InitList == UsageIdle /\ ItemIdle /\ ListInit /\ PanelIdle

SpecList == InitList /\ [][NextList]_vars

\* NewConversationDialog on its own
InitDialog == UsageIdle /\ ItemIdle /\ AppInit /\ AuxInit /\ DialogInit /\ SettingsIdle

SpecDialog == InitDialog /\ [][NextDialog]_vars

\* AssistantSettings on its own
InitSettings == UsageIdle /\ ItemIdle /\ AppInit /\ AuxInit /\ DialogInit /\ SettingsInit

SpecSettings == InitSettings /\ [][NextSettings]_vars

\* Every backend call of the three components, one component at a time (they
\* share no state but the toasts): either DbAssistant from its construction,
\* making its five loads, or DbAssistant with everything loaded, the dialog
\* open and the settings filled in, making the create and save calls.
Fresh == UsageIdle /\ AppInit /\ AuxInit /\ DialogInit /\ SettingsIdle

Loaded ==
    /\ mounted = TRUE
    /\ conversations = <<>>
    /\ currentConversation = Null
    /\ messages = <<>>
    /\ isLoadingConversations = FALSE
    /\ isLoadingMessages = FALSE
    /\ toasts = {}
    /\ net = EmptyBag
    /\ response = NoResponse
    /\ aiModels = <<[id |-> 1]>>
    /\ preferences = [temperature |-> 7]
    /\ usageStats \in UsageLists \ {<<>>}
    /\ groupedByDate = <<>>
    /\ sortedStats = <<>>
    /\ usageView = "unrendered"
    /\ isLoadingModels = FALSE
    /\ isLoadingPreferences = FALSE
    /\ isLoadingUsageStats = FALSE

DialogOpen ==
    /\ dialogTitle = DefaultTitle
    /\ modelId = NoModelId
    /\ systemPrompt = ""
    /\ isCreating = FALSE
    /\ open = TRUE
    /\ createCall = NoCall
    /\ dialogEvent = "none"

\* localPreferences follows the preferences prop; a key is entered for every
\* provider.
SettingsFilled ==
    /\ localPreferences = preferences
    /\ apiKeys = [q \in Providers |-> "sk-1"]
    /\ isSaving = FALSE
    /\ saveCall = NoCall
    /\ settingsEvent = "none"

InitCalls ==
    /\ ItemIdle
    /\ Fresh \/ (Loaded /\ DialogOpen /\ SettingsFilled)

\* The loads that the initial loading flags announce, made once.
InitialLoadModels ==
    isLoadingModels /\ Requests(net, "models") = {} /\ loadModels

InitialLoadPreferences ==
    isLoadingPreferences /\ Requests(net, "preferences") = {} /\ loadPreferences

\* The usage statistics are asked for while none are held.
FirstLoadUsageStats == usageStats = <<>> /\ loadUsageStats

\* The save buttons, used once preferences are held and for a provider whose
\* key is entered.
ClickSavePreferences == localPreferences # EmptyPreferences /\ handleSavePreferences

ClickSaveApiKey ==
    \E provider \in Providers : apiKeys[provider] # "" /\ handleSaveApiKey(provider)

NextCalls ==
    \/ Mount
    \/ LoadConversationsSettle
    \/ LoadMessagesSettle
    \/ InitialLoadModels
    \/ LoadModelsSettle
    \/ InitialLoadPreferences
    \/ LoadPreferencesSettle
    \/ FirstLoadUsageStats
    \/ LoadUsageStatsSettle
    \/ handleCreate
    \/ HandleCreateSettle
    \/ ClickSavePreferences
    \/ ClickSaveApiKey
    \/ HandleSaveSettle

SpecCalls == InitCalls /\ [][NextCalls]_vars

----------------------------------------------------------------------------
(* UsageStatistics: properties *)

Rendered == usageView # "unrendered"

\* The rows of a list in every order.
Orderings(rows) ==
    {[i \in 1..Len(rows) |-> rows[p[i]]] : p \in Permutations(1..Len(rows))}

RECURSIVE SumSeq(_)
SumSeq(s) == IF s = <<>> THEN 0 ELSE Head(s) + SumSeq(Tail(s))

\* The totals of a grouped result, without the order of its entries.
ModelTotals(models) ==
    {<<models[i].key, models[i].tokens, models[i].requests>> : i \in 1..Len(models)}

DateTotals(grouped) ==
    {<<grouped[i].date, grouped[i].totalTokens, grouped[i].totalRequests,
       ModelTotals(grouped[i].models)>> : i \in 1..Len(grouped)}

RowsOfDate(d) == SelectSeq(usageStats, LAMBDA r : r.date = d)

TokensOf(rows) == SumSeq([i \in 1..Len(rows) |-> rows[i].tokens_used])

RequestsOf(rows) == SumSeq([i \in 1..Len(rows) |-> rows[i].request_count])

\* C2: the output has exactly one entry per distinct date of the input, with
\* totalTokens and totalRequests the sums over the rows of that date.
C2_OneEntryPerDate ==
    Rendered =>
        /\ {sortedStats[i].date : i \in 1..Len(sortedStats)}
              = {usageStats[i].date : i \in 1..Len(usageStats)}
        /\ \A i, j \in 1..Len(sortedStats) :
              sortedStats[i].date = sortedStats[j].date => i = j
        /\ \A i \in 1..Len(sortedStats) :
              /\ sortedStats[i].totalTokens = TokensOf(RowsOfDate(sortedStats[i].date))
              /\ sortedStats[i].totalRequests = RequestsOf(RowsOfDate(sortedStats[i].date))

\* Some date has several rows, and there are several dates.
C2_Witness ==
    /\ Rendered
    /\ Len(sortedStats) = 2
    /\ Len(usageStats) = 3

RowsOfModel(d, provider, name) ==
    SelectSeq(usageStats, LAMBDA r : r.date = d /\ r.provider = provider /\ r.model_name = name)

PairsOfDate(d) ==
    {<<usageStats[i].provider, usageStats[i].model_name>> :
        i \in {k \in 1..Len(usageStats) : usageStats[k].date = d}}

\* C3: each date bucket has one model entry per distinct (provider,
\* model_name) pair of its rows, and each entry's tokens and requests are the
\* sums over exactly the rows of that pair.
C3_OneEntryPerPair ==
    Rendered =>
        \A i \in 1..Len(sortedStats) :
            LET entry == sortedStats[i]
            IN /\ {<<entry.models[j].provider, entry.models[j].name>> :
                      j \in 1..Len(entry.models)} = PairsOfDate(entry.date)
               /\ \A j \in 1..Len(entry.models) :
                     LET m == entry.models[j]
                     IN /\ m.tokens = TokensOf(RowsOfModel(entry.date, m.provider, m.name))
                        /\ m.requests = RequestsOf(RowsOfModel(entry.date, m.provider, m.name))

\* C4: in every date entry the tokens of the model entries add up to
\* totalTokens and their requests to totalRequests.
C4_ModelsAddUp ==
    Rendered =>
        \A i \in 1..Len(sortedStats) :
            LET models == sortedStats[i].models
            IN /\ SumSeq([j \in 1..Len(models) |-> models[j].tokens])
                     = sortedStats[i].totalTokens
               /\ SumSeq([j \in 1..Len(models) |-> models[j].requests])
                     = sortedStats[i].totalRequests

\* A date entry with several model entries, one of them fed by several rows.
C4_Witness ==
    /\ Rendered
    /\ \E i \in 1..Len(sortedStats) :
          /\ Len(sortedStats[i].models) = 2
          /\ \E j \in 1..2 : sortedStats[i].models[j].requests >= 3

\* Calendar order of two day strings.
DateLater(a, b) ==
    \/ a[1] > b[1]
    \/ a[1] = b[1] /\ a[2] > b[2]
    \/ a[1] = b[1] /\ a[2] = b[2] /\ a[3] > b[3]

\* C5: sortedStats is strictly descending by date: each entry's date is later
\* than the date of the entry after it.
C5_DateDescending ==
    Rendered =>
        \A i \in 1..(Len(sortedStats) - 1) :
            DateLater(sortedStats[i].date, sortedStats[i + 1].date)

\* Three dates that arrived in another order than the output has.
C5_Witness ==
    /\ Rendered
    /\ Len(sortedStats) = 3
    /\ sortedStats # groupedByDate

\* C6: an empty usage list gives an empty result and the "no data" state; a
\* non-empty usage list gives a non-empty result and not the "no data" state.
C6_NoDataIffEmpty ==
    Rendered =>
        /\ usageStats = <<>> => sortedStats = <<>> /\ usageView = "noData"
        /\ usageStats # <<>> => sortedStats # <<>> /\ usageView = "stats"

\* The component rendered an empty usage list.
C6_Witness ==
    /\ usageStats = <<>>
    /\ usageView = "noData"

----------------------------------------------------------------------------
(* ConversationListItem: properties *)

\* A title that is empty or consists of whitespace only.
Blank(t) == \A i \in 1..Len(t) : t[i] = " "

\* C7: renaming with an empty or whitespace-only title is a no-op: while the
\* edited title is blank no event invokes onRename or changes the
\* conversation's title, onRename is never given a blank title, and the
\* conversation's title is never changed to a blank one.
C7_BlankRenameIsNoOp ==
    /\ [](renamed # NoRename => ~Blank(renamed))
    /\ [][Blank(title) => (renamed' = renamed /\ itemTitle' = itemTitle)]_vars
    /\ [][itemTitle' # itemTitle => ~Blank(itemTitle')]_vars

\* Enter or blur was handled with a whitespace-only title typed in: the editor
\* is still open and the conversation keeps its title.
C7_Witness ==
    /\ itemEvent \in {"Enter", "blur"}
    /\ isEditing
    /\ title # <<>>
    /\ Blank(title)
    /\ ~Blank(itemTitle)

----------------------------------------------------------------------------
(* DbAssistant: properties *)

\* This step handles the response to a request of the given kind.
Arrives(op) == \E r \in Requests(net, op) : CopiesIn(r, net') < CopiesIn(r, net)

\* C8: when the list fetched on mount arrives and is non-empty while no
\* conversation is selected, its first conversation becomes
\* currentConversation and one message fetch is issued, for that
\* conversation's id; when it arrives empty, currentConversation is left as
\* it is and no message fetch is issued.
C8_MountSelectsFirst ==
    [][(Arrives("conversations") /\ response'.kind = "ok") =>
          LET data == response'.data
          IN /\ (Len(data) > 0 /\ currentConversation = Null) =>
                   /\ currentConversation' = data[1]
                   /\ MessageFetches(net')
                         = [MessageFetches(net) EXCEPT ![data[1].id] = @ + 1]
             /\ Len(data) = 0 =>
                   /\ currentConversation' = currentConversation
                   /\ MessageFetches(net') = MessageFetches(net)]_vars

\* A list of two conversations arrived: the first one is selected and the
\* only request in flight is the fetch of its messages.
C8_Witness ==
    /\ response.op = "conversations"
    /\ response.kind = "ok"
    /\ Len(response.data) = 2
    /\ conversations = response.data
    /\ currentConversation = response.data[1]
    /\ net = SetToBag({Request("messages", response.data[1].id, Null)})

\* C9: loadConversations never replaces a selection: if currentConversation
\* is non-null when the list response is handled, currentConversation is
\* left unchanged and no message fetch is issued.
C9_SelectionNeverReplaced ==
    [][(Arrives("conversations") /\ currentConversation # Null) =>
          /\ currentConversation' = currentConversation
          /\ MessageFetches(net') = MessageFetches(net)]_vars

\* C10: after a successful loadMessages the displayed messages are exactly
\* the sequence the backend returned for that request.
C10_MessagesReplaced ==
    [][(Arrives("messages") /\ response'.kind = "ok") =>
          messages' = response'.data]_vars

\* A successful fetch that returned one message was handled last: that
\* message is what is displayed.
C10_Witness ==
    /\ response.op = "messages"
    /\ response.kind = "ok"
    /\ Len(response.data) = 1
    /\ messages = response.data

\* The operations that load data.
LoadOps == {"conversations", "messages", "models", "preferences", "usage"}

\* C11: a failing load operation leaves conversations, currentConversation,
\* messages, models, preferences and usageStats as they were and issues no
\* request.
C11_FailedLoadChangesNothing ==
    [][((\E op \in LoadOps : Arrives(op)) /\ response'.kind = "failed") =>
          /\ UNCHANGED <<conversations, currentConversation, messages,
                          aiModels, preferences, usageStats>>
          /\ \A r \in BagToSet(net') : CopiesIn(r, net') <= CopiesIn(r, net)]_vars

\* C16: isLoadingMessages is true whenever a loadMessages request is in flight.
C16_LoadingWhilePending ==
    Requests(net, "messages") # {} => isLoadingMessages

\* The response of a loadMessages request made for a conversation other than
\* the one selected now is handled in this step.
ArrivesStale ==
    \E r \in Requests(net, "messages") :
        /\ CopiesIn(r, net') < CopiesIn(r, net)
        /\ r.arg # currentConversation.id

\* C13: message fetches are not cancelled, deduplicated or ordered.  A step
\* that changes the selection leaves every pending message fetch in flight,
\* and a message response that succeeds for a conversation that is no longer
\* the selected one is still applied: it replaces messages and leaves the
\* selection as it is.
C13_StaleResponseApplied ==
    [][/\ (currentConversation' # currentConversation) =>
             \A r \in Requests(net, "messages") : CopiesIn(r, net') >= CopiesIn(r, net)
       /\ (ArrivesStale /\ response'.kind = "ok") =>
             /\ messages' = response'.data
             /\ currentConversation' = currentConversation]_vars

\* Every request has resolved, and the messages on display are those of a
\* conversation other than the selected one, delivered by the response
\* handled last.
C13_Witness ==
    /\ net = EmptyBag
    /\ currentConversation # Null
    /\ response.op = "messages" /\ response.kind = "ok"
    /\ messages = response.data
    /\ messages # Undefined /\ messages # <<>>
    /\ messages[1].conversation_id # currentConversation.id

----------------------------------------------------------------------------
(* DbAssistant: properties of delete and pin *)

Position(list, id) == CHOOSE i \in 1..Len(list) : list[i].id = id

Members(list) == {list[i] : i \in 1..Len(list)}

PinnedBeforeUnpinned(list) ==
    \A i, j \in 1..Len(list) : (i < j /\ list[j].is_pinned) => list[i].is_pinned

----------------------------------------------------------------------------
(* NewConversationDialog: properties *)

\* handleCreate ran up to its await or its early return.
CreateAttempted == dialogEvent' \in {"ignored", "called"}

\* handleCreate ran on after its await.
CreateSettled == createCall # NoCall /\ createCall' = NoCall

\* C18: handleCreate with a title that trims to empty makes no call and
\* changes nothing; a call that succeeds resets the form to its defaults and
\* closes the dialog; a call that fails keeps the form as it is, leaves the
\* dialog as it is and shows a toast; either way isCreating ends false.
C18_HandleCreate ==
    [][/\ (CreateAttempted /\ trim(dialogTitle) = <<>>) =>
             /\ createCall' = NoCall
             /\ UNCHANGED <<dialogTitle, modelId, systemPrompt, isCreating, open, toasts>>
       /\ (CreateAttempted /\ trim(dialogTitle) # <<>>) =>
             /\ createCall' # NoCall
             /\ createCall'.title = dialogTitle
       /\ (CreateSettled /\ dialogEvent' = "created") =>
             /\ dialogTitle' = DefaultTitle
             /\ modelId' = NoModelId
             /\ systemPrompt' = ""
             /\ ~open'
             /\ ~isCreating'
       /\ (CreateSettled /\ dialogEvent' = "failed") =>
             /\ UNCHANGED <<dialogTitle, modelId, systemPrompt, open>>
             /\ "createFailed" \in toasts'
             /\ ~isCreating'
       /\ CreateSettled => dialogEvent' \in {"created", "failed"}]_vars

\* A call failed with the form filled in and the dialog open: the entries
\* are still there, the dialog is open and the toast was shown.
C18_Witness ==
    /\ dialogEvent = "failed"
    /\ open
    /\ dialogTitle = <<"a">>
    /\ modelId = 1
    /\ systemPrompt = "p"
    /\ "createFailed" \in toasts
    /\ ~isCreating

----------------------------------------------------------------------------
(* AssistantSettings: properties *)

\* handleSaveApiKey(provider) ran on after its await.
ApiKeySaveSettled(provider) ==
    /\ saveCall # NoCall
    /\ saveCall.call = provider
    /\ saveCall' = NoCall

\* C19: handleSaveApiKey(provider) with an empty key for the provider makes
\* no call and changes nothing; a call that succeeds clears that provider's
\* key input and no other; a call that fails keeps every key; either way
\* isSaving ends false.
C19_HandleSaveApiKey ==
    [][\A provider \in Providers :
          /\ (settingsEvent' = "ignored") =>
                /\ \E q \in Providers : apiKeys[q] = ""
                /\ saveCall' = NoCall
                /\ UNCHANGED <<apiKeys, isSaving, localPreferences, toasts>>
          /\ (settingsEvent' = "called" /\ saveCall'.call = provider) =>
                /\ apiKeys[provider] # ""
                /\ saveCall'.value = apiKeys[provider]
          /\ (ApiKeySaveSettled(provider) /\ settingsEvent' = "apiKeySaved") =>
                /\ apiKeys'[provider] = ""
                /\ \A q \in Providers \ {provider} : apiKeys'[q] = apiKeys[q]
                /\ ~isSaving'
          /\ (ApiKeySaveSettled(provider) /\ settingsEvent' = "apiKeyFailed") =>
                /\ apiKeys' = apiKeys
                /\ "saveApiKeyFailed" \in toasts'
                /\ ~isSaving'
          /\ ApiKeySaveSettled(provider) =>
                settingsEvent' \in {"apiKeySaved", "apiKeyFailed"}]_vars

\* The openai key was saved with keys entered for the other two providers:
\* only the openai input is empty.
C19_Witness ==
    /\ settingsEvent = "apiKeySaved"
    /\ apiKeys["openai"] = ""
    /\ apiKeys["anthropic"] = "sk-1"
    /\ apiKeys["gemini"] = "sk-2"
    /\ ~isSaving

\* C20: the temperature shown is the temperature held, for every value the
\* slider can set, and is 0.7 only when none is held or 0.7 is.
C20_ShownIsHeld ==
    /\ HasTemperature(localPreferences) =>
          ShownTemperature(localPreferences) = localPreferences.temperature
    /\ ShownTemperature(localPreferences) = DefaultTemperature =>
          \/ ~HasTemperature(localPreferences)
          \/ localPreferences.temperature = DefaultTemperature

----------------------------------------------------------------------------
(* Backend calls: properties *)

\* The toast each load's catch block is said to show.
FailureToast(op) ==
    CASE op = "conversations" -> "loadConversationsFailed"
      [] op = "messages" -> "loadMessagesFailed"
      [] op = "models" -> "loadModelsFailed"
      [] op = "preferences" -> "loadPreferencesFailed"
      [] op = "usage" -> "loadUsageStatsFailed"

\* The response of a load is handled in this step and its catch block runs.
LoadFailed(op) == Arrives(op) /\ response'.op = op /\ response'.kind = "failed"

\* The dialog's create call is rejected in this step.
CreateFailed == CreateSettled /\ dialogEvent' = "failed"

\* A save call of the settings is rejected in this step.
SaveFailed(toast) ==
    /\ saveCall # NoCall /\ saveCall' = NoCall
    /\ settingsEvent' = (IF toast = "savePreferencesFailed"
                         THEN "preferencesFailed" ELSE "apiKeyFailed")

SaveToasts == {"savePreferencesFailed", "saveApiKeyFailed"}

\* C12 as claimed: every failed backend call, of the five loads and of the
\* create and save calls, shows its failure toast.
C12_EveryFailureToasted ==
    [][/\ \A op \in LoadOps : LoadFailed(op) => FailureToast(op) \in toasts'
       /\ CreateFailed => "createFailed" \in toasts'
       /\ \A toast \in SaveToasts : SaveFailed(toast) => toast \in toasts']_vars

\* C12 as amended: every failed backend call shows its failure toast, except
\* a failed loadPreferences, which is caught and shows nothing.
C12_FailureToastedButPreferences ==
    [][/\ \A op \in LoadOps \ {"preferences"} :
             LoadFailed(op) => FailureToast(op) \in toasts'
       /\ LoadFailed("preferences") =>
             /\ toasts' = toasts
             /\ ~isLoadingPreferences'
       /\ CreateFailed => "createFailed" \in toasts'
       /\ \A toast \in SaveToasts : SaveFailed(toast) => toast \in toasts']_vars

\* loadModels failed and was toasted, then loadPreferences failed and was not.
C12_Witness ==
    /\ response.op = "preferences" /\ response.kind = "failed"
    /\ toasts = {"loadModelsFailed"}
    /\ ~isLoadingPreferences

\* The loading flag of a load operation.
Flag(op) ==
    CASE op = "conversations" -> isLoadingConversations
      [] op = "messages" -> isLoadingMessages
      [] op = "models" -> isLoadingModels
      [] op = "preferences" -> isLoadingPreferences
      [] op = "usage" -> isLoadingUsageStats

\* A request of the operation is issued in this step.
Issued(op) ==
    \E r \in Requests(net', op) : CopiesIn(r, net') > CopiesIn(r, net)

\* C17: a load sets its flag when it starts and clears it when its request
\* resolves or rejects, whether its try body completes or its catch runs, and
\* no flag changes in a step that neither starts nor ends its own load.
C17_FlagFollowsLoad ==
    [][\A op \in LoadOps :
          /\ Issued(op) => Flag(op)'
          /\ (Arrives(op) /\ ~Issued(op)) =>
                /\ ~Flag(op)'
                /\ response'.kind \in {"ok", "failed"}
          /\ (Flag(op)' # Flag(op)) => (Issued(op) \/ Arrives(op))]_vars

\* loadPreferences has failed and its flag is cleared, while loadModels is
\* still waiting with its flag set.
C17_Witness ==
    /\ response.op = "preferences" /\ response.kind = "failed"
    /\ ~isLoadingPreferences
    /\ Requests(net, "models") # {}
    /\ isLoadingModels

====
